---- MODULE Spec2Model ----
(***************************************************************************)
(* The two reconciler scripts of the repository, run one after another     *)
(* against one MongoDB collection and one customer_emails.csv:             *)
(*   processEmails(startRange, endRange)  (src/script.js, enrichment)      *)
(*   updateStoreInfo()                    (src/unnamed/part_000, update)   *)
(* One action is one iteration of a script's row loop (everything the      *)
(* loop body does for that row, for one outcome of the collaborator calls  *)
(* it awaits).  Strings are sequences of one-character strings so that     *)
(* toLowerCase() and trim() are computed, not assumed.  A collaborator     *)
(* call that throws is taken not to have changed the collection.           *)
(* Connection and ingestion failures end a job before its loop starts and  *)
(* are outside the model.                                                  *)
(***************************************************************************)
EXTENDS Integers, Sequences, FiniteSets

VARIABLES csvRows, collection, job, pc, runs, prevJob,
          startRange, endRange, currentIndex,
          totalProcessed, updatedRecords, notFoundRecords, errorRecords,
          now, trace, startCollection

vars == <<csvRows, collection, job, pc, runs, prevJob,
          startRange, endRange, currentIndex,
          totalProcessed, updatedRecords, notFoundRecords, errorRecords,
          now, trace, startCollection>>

\* ---------------------------------------------------------------- bounds
MaxRows == 2
MaxRuns == 1
MaxClock == 2

\* ---------------------------------------------------------------- values
\* JavaScript's undefined: a field the CSV row or the document does not have.
Undefined == <<"undefined">>

\* The CSV rows of customer_emails.csv the model draws from.
Row(e, s, n) == [customer_email |-> e, external_store_id |-> s, name |-> n]

RowValues ==
    { Row(<<"A">>, <<"s", " ">>, <<"n">>),
      Row(<<" ", "a">>, <<"t">>, <<>>),
      Row(<<"b">>, Undefined, Undefined),
      Row(<<" ">>, Undefined, <<"n">>),
      Row(<<>>, <<"t">>, <<"n">>),
      Row(Undefined, <<"s">>, <<"n">>) }

\* A document of the collection.  Dates are {} (field absent) or {t}.
Doc(e, d, p, s, n, u) ==
    [email |-> e, data |-> d, processedAt |-> p,
     external_store_id |-> s, store_name |-> n, store_info_updated_at |-> u]

CollectionValues ==
    { <<>>,
      << Doc(<<"a">>, <<"d">>, {0}, Undefined, Undefined, {}) >>,
      << Doc(<<"a">>, <<"d">>, {0}, <<"s">>, <<"m">>, {0}),
         Doc(<<"c">>, <<"d">>, {0}, <<"t">>, Undefined, {}) >> }

RECURSIVE SeqsUpTo(_, _)
SeqsUpTo(S, n) ==
    IF n = 0 THEN { <<>> }
    ELSE LET shorter == SeqsUpTo(S, n - 1)
         IN  shorter \cup { Append(q, x) : q \in { r \in shorter : Len(r) = n - 1 }, x \in S }

\* ------------------------------------------------- String.prototype methods
LowerChar(c) == IF c = "A" THEN "a" ELSE IF c = "B" THEN "b" ELSE c

ToLowerCase(s) == [k \in 1..Len(s) |-> LowerChar(s[k])]

IsSpace(c) == c = " "

RECURSIVE TrimStart(_)
TrimStart(s) ==
    IF s # <<>> /\ IsSpace(Head(s)) THEN TrimStart(Tail(s)) ELSE s

RECURSIVE TrimEnd(_)
TrimEnd(s) ==
    IF s # <<>> /\ IsSpace(s[Len(s)]) THEN TrimEnd(SubSeq(s, 1, Len(s) - 1)) ELSE s

Trim(s) == TrimEnd(TrimStart(s))

\* x?.toLowerCase().trim() and x?.trim(): undefined short-circuits the chain.
OptLowerTrim(x) == IF x = Undefined THEN Undefined ELSE Trim(ToLowerCase(x))

OptTrim(x) == IF x = Undefined THEN Undefined ELSE Trim(x)

\* A presence test that lets the empty string through (x !== undefined).
TruthyDefined(x) == x # Undefined

\* JavaScript truthiness of a string-or-undefined value.
Truthy(x) == x # Undefined /\ x # <<>>

\* -------------------------------------------------------- the collection
\* Index of the first document matching { email: email }, 0 when none.
FindIndex(coll, email) ==
    IF \E k \in 1..Len(coll) : coll[k].email = email
    THEN CHOOSE k \in 1..Len(coll) :
            /\ coll[k].email = email
            /\ \A j \in 1..(k - 1) : coll[j].email # email
    ELSE 0

\* A findOne that matches no document (a filter on the wrong field).
FindOneNull(coll, email) == 0

\* collection.findOne({ email: email }): index of the document, 0 for null.
FindOne(coll, email) == FindIndex(coll, email)

\* updateData of updateStoreInfo: only the truthy fields, and the timestamp.
UpdateData(externalStoreId, storeName, date) ==
    [external_store_id |-> IF Truthy(externalStoreId) THEN externalStoreId ELSE Undefined,
     store_name |-> IF Truthy(storeName) THEN storeName ELSE Undefined,
     store_info_updated_at |-> {date}]

\* A replacement instead of a merge: fields absent from updateData are lost.
ApplySetReplace(doc, updateData) ==
    [doc EXCEPT
        !.external_store_id = updateData.external_store_id,
        !.store_name = updateData.store_name,
        !.store_info_updated_at = updateData.store_info_updated_at]

\* { $set: updateData } applied to one document: fields absent from
\* updateData keep their value.
ApplySet(doc, updateData) ==
    [doc EXCEPT
        !.external_store_id =
            IF updateData.external_store_id # Undefined
            THEN updateData.external_store_id ELSE @,
        !.store_name =
            IF updateData.store_name # Undefined
            THEN updateData.store_name ELSE @,
        !.store_info_updated_at = updateData.store_info_updated_at]

\* collection.updateOne({ email: email }, { $set: updateData }).
UpdateOne(coll, email, updateData) ==
    LET k == FindIndex(coll, email)
    IN  IF k = 0 THEN coll ELSE [coll EXCEPT ![k] = ApplySet(coll[k], updateData)]

\* result.modifiedCount: 1 when the matched document changed, else 0.
ModifiedCount(coll, email, updateData) ==
    IF UpdateOne(coll, email, updateData) # coll THEN 1 ELSE 0

\* collection.insertOne({ email, data: response.data, processedAt: new Date() }).
InsertOne(coll, email, date) ==
    Append(coll, Doc(email, <<"d">>, {date}, Undefined, Undefined, {}))

\* ------------------------------------------------------------ the trace
\* What the current job has done so far, call by call.
Ev(op, i, key, res, present) ==
    [op |-> op, row |-> i, key |-> key, res |-> res, present |-> present]

HasEmail(coll, email) == \E k \in 1..Len(coll) : coll[k].email = email

Call(op, i, key, res) == Ev(op, i, key, res, HasEmail(collection, key))

Note(op, i) == Ev(op, i, <<>>, "", FALSE)

\* ----------------------------------------------------------------- Init
Init ==
    /\ csvRows \in SeqsUpTo(RowValues, MaxRows)
    /\ collection \in CollectionValues
    /\ job = "none"
    /\ pc = "idle"
    /\ runs = 0
    /\ prevJob = "none"
    /\ startRange = 0
    /\ endRange = 0
    /\ currentIndex = 0
    /\ totalProcessed = 0
    /\ updatedRecords = 0
    /\ notFoundRecords = 0
    /\ errorRecords = 0
    /\ now = 1
    /\ trace = <<>>
    /\ startCollection = collection

\* new Date(): the wall clock, read in milliseconds, has not gone back since
\* it was last read; two reads may fall in the same millisecond.
DateValues == now..MaxClock

\* ------------------------------------------- processEmails (enrichment)
\* The arguments of processEmails the model draws from: endRange may exceed
\* the number of rows, and startRange may exceed endRange.
StartValues == {1, 2}

EndValues == {1, MaxRows + 1}

\* A range test that excludes its lower end.
InRangeExclusive(i, s, e) == i > s /\ i <= e

\* currentIndex >= startRange && currentIndex <= endRange
InRange(i, s, e) == i >= s /\ i <= e

\* A row error that ends the loop (no try/catch around the row).
AfterCatchAbort == "done"

\* After the row's catch block the for loop goes on with the next row.
AfterCatch == "loop"

StartProcessEmails(limit) ==
    /\ pc \in {"idle", "done"}
    /\ runs < limit
    /\ \E s \in StartValues, e \in EndValues :
          /\ startRange' = s
          /\ endRange' = e
    /\ job' = "enrich"
    /\ prevJob' = job
    /\ runs' = runs + 1
    /\ pc' = "loop"
    /\ currentIndex' = 0
    /\ totalProcessed' = 0
    /\ updatedRecords' = 0
    /\ notFoundRecords' = 0
    /\ errorRecords' = 0
    /\ trace' = <<>>
    /\ startCollection' = collection
    /\ UNCHANGED <<csvRows, collection, now>>

\* Guard of one iteration of "for (const row of rows)".
EnrichRowPending ==
    /\ pc = "loop"
    /\ job = "enrich"
    /\ currentIndex < Len(csvRows)

EnrichFrame ==
    UNCHANGED <<csvRows, job, runs, prevJob, startRange, endRange, totalProcessed,
                updatedRecords, notFoundRecords, errorRecords, startCollection>>

\* The row is outside [startRange, endRange]: only currentIndex++ happens.
EnrichOutOfRange ==
    /\ EnrichRowPending
    /\ ~InRange(currentIndex + 1, startRange, endRange)
    /\ currentIndex' = currentIndex + 1
    /\ UNCHANGED <<pc, collection, trace, now>>
    /\ EnrichFrame

\* row.customer_email is undefined: .toLowerCase() throws a TypeError.
EnrichEmailUnreadable ==
    /\ EnrichRowPending
    /\ InRange(currentIndex + 1, startRange, endRange)
    /\ csvRows[currentIndex + 1].customer_email = Undefined
    /\ currentIndex' = currentIndex + 1
    /\ trace' = trace \o << Note("catch", currentIndex + 1) >>
    /\ pc' = AfterCatch
    /\ UNCHANGED <<collection, now>>
    /\ EnrichFrame

\* The row reaches findOne with a lowercased email.
EnrichLookup ==
    /\ EnrichRowPending
    /\ InRange(currentIndex + 1, startRange, endRange)
    /\ csvRows[currentIndex + 1].customer_email # Undefined

EnrichEmail == ToLowerCase(csvRows[currentIndex + 1].customer_email)

\* collection.findOne throws.
EnrichLookupFails ==
    /\ EnrichLookup
    /\ currentIndex' = currentIndex + 1
    /\ trace' = trace \o << Call("findOne", currentIndex + 1, EnrichEmail, "throw"),
                             Note("catch", currentIndex + 1) >>
    /\ pc' = AfterCatch
    /\ UNCHANGED <<collection, now>>
    /\ EnrichFrame

\* existingRecord is found: log and continue.
EnrichSkipExisting ==
    /\ EnrichLookup
    /\ FindOne(collection, EnrichEmail) # 0
    /\ currentIndex' = currentIndex + 1
    /\ trace' = trace \o << Call("findOne", currentIndex + 1, EnrichEmail, "found") >>
    /\ UNCHANGED <<pc, collection, now>>
    /\ EnrichFrame

\* No existing record, and axios.post throws (network error, non-2xx status).
EnrichApiFails ==
    /\ EnrichLookup
    /\ FindOne(collection, EnrichEmail) = 0
    /\ currentIndex' = currentIndex + 1
    /\ trace' = trace \o << Call("findOne", currentIndex + 1, EnrichEmail, "null"),
                             Call("post", currentIndex + 1, EnrichEmail, "throw"),
                             Note("catch", currentIndex + 1) >>
    /\ pc' = AfterCatch
    /\ UNCHANGED <<collection, now>>
    /\ EnrichFrame

\* The API answered and collection.insertOne throws.
EnrichInsertFails ==
    /\ EnrichLookup
    /\ FindOne(collection, EnrichEmail) = 0
    /\ currentIndex' = currentIndex + 1
    /\ trace' = trace \o << Call("findOne", currentIndex + 1, EnrichEmail, "null"),
                             Call("post", currentIndex + 1, EnrichEmail, "ok"),
                             Call("insertOne", currentIndex + 1, EnrichEmail, "throw"),
                             Note("catch", currentIndex + 1) >>
    /\ pc' = AfterCatch
    /\ UNCHANGED <<collection, now>>
    /\ EnrichFrame

\* The API answered, the document is inserted, and the 1000 ms delay runs.
EnrichInserted ==
    /\ EnrichLookup
    /\ FindOne(collection, EnrichEmail) = 0
    /\ currentIndex' = currentIndex + 1
    /\ \E date \in DateValues :
          /\ now' = date
          /\ collection' = InsertOne(collection, EnrichEmail, date)
    /\ trace' = trace \o << Call("findOne", currentIndex + 1, EnrichEmail, "null"),
                             Call("post", currentIndex + 1, EnrichEmail, "ok"),
                             Call("insertOne", currentIndex + 1, EnrichEmail, "ok"),
                             Note("delay", currentIndex + 1) >>
    /\ UNCHANGED pc
    /\ EnrichFrame

\* The for loop is over; finally closes the client.
ProcessEmailsEnds ==
    /\ pc = "loop"
    /\ job = "enrich"
    /\ currentIndex = Len(csvRows)
    /\ pc' = "done"
    /\ UNCHANGED <<csvRows, collection, job, runs, prevJob, startRange, endRange,
                   currentIndex, totalProcessed, updatedRecords, notFoundRecords,
                   errorRecords, now, trace, startCollection>>

\* ------------------------------------------------ updateStoreInfo (update)
\* An error path that forgets errorRecords++.
CountErrorLost(n) == n

\* errorRecords++
CountError(n) == n + 1

StartUpdateStoreInfo(limit) ==
    /\ pc \in {"idle", "done"}
    /\ runs < limit
    /\ job' = "update"
    /\ prevJob' = job
    /\ runs' = runs + 1
    /\ pc' = "loop"
    /\ startRange' = 0
    /\ endRange' = 0
    /\ currentIndex' = 0
    /\ totalProcessed' = 0
    /\ updatedRecords' = 0
    /\ notFoundRecords' = 0
    /\ errorRecords' = 0
    /\ trace' = <<>>
    /\ startCollection' = collection
    /\ UNCHANGED <<csvRows, collection, now>>

\* Guard of one iteration of "for (const row of csvRows)".
UpdateRowPending ==
    /\ pc = "loop"
    /\ job = "update"
    /\ totalProcessed < Len(csvRows)

UpdateFrame ==
    UNCHANGED <<csvRows, job, runs, prevJob, startRange, endRange, currentIndex,
                startCollection>>

UpdateEmail == OptLowerTrim(csvRows[totalProcessed + 1].customer_email)

UpdateExternalStoreId == OptTrim(csvRows[totalProcessed + 1].external_store_id)

UpdateStoreName == OptTrim(csvRows[totalProcessed + 1].name)

\* if (!email): count an error and continue, before any database call.
UpdateMissingEmail ==
    /\ UpdateRowPending
    /\ ~Truthy(UpdateEmail)
    /\ totalProcessed' = totalProcessed + 1
    /\ errorRecords' = CountError(errorRecords)
    /\ trace' = trace \o << Note("missing", totalProcessed + 1) >>
    /\ UNCHANGED <<pc, collection, updatedRecords, notFoundRecords, now>>
    /\ UpdateFrame

\* collection.findOne throws: the catch block counts an error.
UpdateLookupFails ==
    /\ UpdateRowPending
    /\ Truthy(UpdateEmail)
    /\ totalProcessed' = totalProcessed + 1
    /\ errorRecords' = CountError(errorRecords)
    /\ trace' = trace \o << Call("findOne", totalProcessed + 1, UpdateEmail, "throw"),
                             Note("catch", totalProcessed + 1) >>
    /\ pc' = AfterCatch
    /\ UNCHANGED <<collection, updatedRecords, notFoundRecords, now>>
    /\ UpdateFrame

\* A not-found branch that creates the record (an upsert).
UpdateNotFoundUpsert ==
    /\ UpdateRowPending
    /\ Truthy(UpdateEmail)
    /\ FindOne(collection, UpdateEmail) = 0
    /\ totalProcessed' = totalProcessed + 1
    /\ notFoundRecords' = notFoundRecords + 1
    /\ collection' = InsertOne(collection, UpdateEmail, now)
    /\ trace' = trace \o << Call("findOne", totalProcessed + 1, UpdateEmail, "null") >>
    /\ UNCHANGED <<pc, updatedRecords, errorRecords, now>>
    /\ UpdateFrame

\* existingRecord is null: notFoundRecords++.
UpdateNotFound ==
    /\ UpdateRowPending
    /\ Truthy(UpdateEmail)
    /\ FindOne(collection, UpdateEmail) = 0
    /\ totalProcessed' = totalProcessed + 1
    /\ notFoundRecords' = notFoundRecords + 1
    /\ trace' = trace \o << Call("findOne", totalProcessed + 1, UpdateEmail, "null") >>
    /\ UNCHANGED <<pc, collection, updatedRecords, errorRecords, now>>
    /\ UpdateFrame

\* The record exists and collection.updateOne throws.
UpdateWriteFails ==
    /\ UpdateRowPending
    /\ Truthy(UpdateEmail)
    /\ FindOne(collection, UpdateEmail) # 0
    /\ totalProcessed' = totalProcessed + 1
    /\ errorRecords' = CountError(errorRecords)
    /\ trace' = trace \o << Call("findOne", totalProcessed + 1, UpdateEmail, "found"),
                             Call("updateOne", totalProcessed + 1, UpdateEmail, "throw"),
                             Note("catch", totalProcessed + 1) >>
    /\ pc' = AfterCatch
    /\ UNCHANGED <<collection, updatedRecords, notFoundRecords, now>>
    /\ UpdateFrame

\* The record exists and updateOne returns: updatedRecords++ only when
\* result.modifiedCount > 0.
UpdateApplied ==
    /\ UpdateRowPending
    /\ Truthy(UpdateEmail)
    /\ FindOne(collection, UpdateEmail) # 0
    /\ \E date \in DateValues :
       LET updateData == UpdateData(UpdateExternalStoreId, UpdateStoreName, date)
           modified == ModifiedCount(collection, UpdateEmail, updateData) > 0
       IN  /\ now' = date
           /\ collection' = UpdateOne(collection, UpdateEmail, updateData)
           /\ updatedRecords' = IF modified THEN updatedRecords + 1 ELSE updatedRecords
           /\ trace' = trace \o
                 << Call("findOne", totalProcessed + 1, UpdateEmail, "found"),
                    Call("updateOne", totalProcessed + 1, UpdateEmail,
                         IF modified THEN "modified" ELSE "unmodified") >>
    /\ totalProcessed' = totalProcessed + 1
    /\ UNCHANGED <<pc, notFoundRecords, errorRecords>>
    /\ UpdateFrame

\* The for loop is over: the final summary is printed and the client closed.
UpdateStoreInfoEnds ==
    /\ pc = "loop"
    /\ job = "update"
    /\ totalProcessed = Len(csvRows)
    /\ pc' = "done"
    /\ UNCHANGED <<csvRows, collection, job, runs, prevJob, startRange, endRange,
                   currentIndex, totalProcessed, updatedRecords, notFoundRecords,
                   errorRecords, now, trace, startCollection>>

\* One step of the scripts, of which at most limit are run one after another.
Step(limit) ==
    \/ StartProcessEmails(limit)
    \/ EnrichOutOfRange
    \/ EnrichEmailUnreadable
    \/ EnrichLookupFails
    \/ EnrichSkipExisting
    \/ EnrichApiFails
    \/ EnrichInsertFails
    \/ EnrichInserted
    \/ ProcessEmailsEnds
    \/ StartUpdateStoreInfo(limit)
    \/ UpdateMissingEmail
    \/ UpdateLookupFails
    \/ UpdateNotFound
    \/ UpdateWriteFails
    \/ UpdateApplied
    \/ UpdateStoreInfoEnds

Next == Step(MaxRuns)

\* MaxRuns script runs against the collection.
Spec == Init /\ [][Next]_vars

NextRerun == Step(MaxRuns + 1)

\* One run more, for what a re-run of a script does.
SpecRerun == Init /\ [][NextRerun]_vars

\* =========================================================== properties
\* Positions of the trace where row i made call op.
At(i, op) == { p \in DOMAIN trace : trace[p].row = i /\ trace[p].op = op }

\* Positions of the trace where call op ended with result res.
Ended(op, res) == { p \in DOMAIN trace : trace[p].op = op /\ trace[p].res = res }

Noted(op) == { p \in DOMAIN trace : trace[p].op = op }

\* ------------------------------------------------------------------ C1
\* C1 as stated: when updateStoreInfo's row loop has finished,
\* totalProcessed = updated + notFound + errors.
C1_CountersSumToTotal ==
    (job = "update" /\ pc = "done") =>
        totalProcessed = updatedRecords + notFoundRecords + errorRecords

\* C1 amended: throughout updateStoreInfo's row loop and at its end,
\* totalProcessed = updated + notFound + errors + the number of rows whose
\* updateOne returned with modifiedCount = 0 (these rows are counted nowhere).
C1_CountersSumWithUnmodified ==
    job = "update" =>
        totalProcessed = updatedRecords + notFoundRecords + errorRecords
                         + Cardinality(Ended("updateOne", "unmodified"))

C1_Witness ==
    /\ job = "update"
    /\ pc = "done"
    /\ totalProcessed = 2
    /\ updatedRecords = 1
    /\ Ended("updateOne", "unmodified") # {}

\* ------------------------------------------------------------------ C2
\* C2: processEmails never calls the matching API, and never inserts, for a
\* row whose lowercased email has a document in the collection at the moment
\* the row is processed (documents inserted earlier in the same run included);
\* every API call carries the row's lowercased email.
C2_NoCallForStoredEmail ==
    job = "enrich" =>
        \A p \in DOMAIN trace :
            trace[p].op \in {"post", "insertOne"} =>
                /\ ~trace[p].present
                /\ trace[p].key = ToLowerCase(csvRows[trace[p].row].customer_email)

\* A duplicate row is skipped because of a document inserted earlier in the run.
C2_Witness ==
    /\ job = "enrich"
    /\ \E p \in Ended("findOne", "found") :
          /\ At(trace[p].row, "post") = {}
          /\ At(trace[p].row, "insertOne") = {}
          /\ \E q \in Ended("insertOne", "ok") : q < p /\ trace[q].key = trace[p].key

\* ------------------------------------------------------------------ C3
\* C3 as stated: after processEmails(startRange, endRange), row i got exactly
\* one lookup if startRange <= i <= endRange and no lookup, API call or
\* insert otherwise.
C3_OneLookupPerRowInRange ==
    (job = "enrich" /\ pc = "done") =>
        \A i \in 1..Len(csvRows) :
            IF startRange <= i /\ i <= endRange
            THEN Cardinality(At(i, "findOne")) = 1
            ELSE At(i, "findOne") \cup At(i, "post") \cup At(i, "insertOne") = {}

\* C3 amended: a row outside [startRange, endRange] gets no lookup, API call
\* or insert; a row inside it is handled exactly once, with exactly one lookup
\* when the row has a customer_email field and none when it has not; the loop
\* ends only after the last row, also when endRange exceeds the row count.
C3_RangeRespected ==
    job = "enrich" =>
        /\ pc = "done" => currentIndex = Len(csvRows)
        /\ currentIndex <= Len(csvRows)
        /\ \A i \in 1..Len(csvRows) :
              IF startRange <= i /\ i <= endRange /\ i <= currentIndex
              THEN /\ Cardinality(At(i, "findOne")) =
                        (IF csvRows[i].customer_email = Undefined THEN 0 ELSE 1)
                   /\ Cardinality(At(i, "post")) <= 1
                   /\ Cardinality(At(i, "insertOne")) <= 1
                   /\ Cardinality(At(i, "catch")) <= 1
                   /\ { p \in DOMAIN trace : trace[p].row = i } # {}
              ELSE { p \in DOMAIN trace : trace[p].row = i } = {}

\* endRange exceeds the row count, row 1 is before the range, row 2 is looked up.
C3_Witness ==
    /\ job = "enrich"
    /\ pc = "done"
    /\ Len(csvRows) = 2
    /\ startRange = 2
    /\ endRange > Len(csvRows)
    /\ Cardinality(At(2, "findOne")) = 1

\* ------------------------------------------------------------------ C4
\* C4: in both scripts an error while processing a row stays in that row: the
\* loop ends only after the last row, every in-scope row up to the loop's
\* position has been handled, in input order; in updateStoreInfo errors counts
\* exactly the failing rows (one each), and a failing row adds to neither
\* updated nor notFound.
InScope(i) == job = "update" \/ (startRange <= i /\ i <= endRange)

Position == IF job = "update" THEN totalProcessed ELSE currentIndex

C4_RowErrorsStayInRow ==
    job # "none" =>
        /\ pc = "done" => Position = Len(csvRows)
        /\ \A i \in 1..Position :
              InScope(i) => { p \in DOMAIN trace : trace[p].row = i } # {}
        /\ \A p \in 1..(Len(trace) - 1) : trace[p].row <= trace[p + 1].row
        /\ \A i \in 1..Len(csvRows) : Cardinality(At(i, "catch")) <= 1
        /\ job = "update" =>
              /\ errorRecords = Cardinality(Noted("catch")) + Cardinality(Noted("missing"))
              /\ updatedRecords = Cardinality(Ended("updateOne", "modified"))
              /\ notFoundRecords = Cardinality(Ended("findOne", "null"))
              /\ \A p \in Noted("catch") \cup Noted("missing") :
                    \A q \in DOMAIN trace :
                        trace[q].row = trace[p].row =>
                            trace[q].res \notin {"modified", "unmodified", "null"}

\* Row 1 fails in updateStoreInfo and row 2 is still looked up and updated.
C4_Witness ==
    /\ job = "update"
    /\ pc = "done"
    /\ At(1, "catch") # {}
    /\ errorRecords = 1
    /\ \E p \in At(2, "updateOne") : trace[p].res = "modified"

\* ------------------------------------------------------------------ C5
\* C5: in updateStoreInfo every row whose lowercased, trimmed email is
\* non-empty gets exactly one findOne, keyed by that normalized email; a row
\* whose email is missing, empty or whitespace-only gets no findOne and no
\* updateOne and is counted once in errors.
NormalizedEmail(i) ==
    IF csvRows[i].customer_email = Undefined
    THEN <<>>
    ELSE Trim(ToLowerCase(csvRows[i].customer_email))

C5_OneLookupPerUsableEmail ==
    job = "update" =>
        /\ \A i \in 1..totalProcessed :
              IF NormalizedEmail(i) # <<>>
              THEN /\ Cardinality(At(i, "findOne")) = 1
                   /\ \A p \in At(i, "findOne") : trace[p].key = NormalizedEmail(i)
                   /\ At(i, "missing") = {}
              ELSE /\ At(i, "findOne") \cup At(i, "updateOne") \cup At(i, "insertOne") = {}
                   /\ Cardinality(At(i, "missing")) = 1
        /\ errorRecords >= Cardinality(Noted("missing"))
        /\ errorRecords = Cardinality(Noted("missing")) + Cardinality(Noted("catch"))

\* A whitespace-only email is refused without a lookup, and another row is
\* looked up under a key that differs from the email as written.
C5_Witness ==
    /\ job = "update"
    /\ \E i \in 1..totalProcessed :
          /\ csvRows[i].customer_email = << " " >>
          /\ At(i, "missing") # {}
          /\ At(i, "findOne") = {}
    /\ \E i \in 1..totalProcessed :
          \E p \in At(i, "findOne") : trace[p].key # csvRows[i].customer_email

\* ------------------------------------------------------------------ C6
\* C6: in updateStoreInfo a row whose normalized email has no document is
\* never followed by a write; its lookup, unless it throws (C4), returns null
\* and adds one to notFound; the run creates and removes no document: the
\* stored emails during and after the run are those before it.
Emails(coll) == [k \in 1..Len(coll) |-> coll[k].email]

C6_NotFoundNeverWrites ==
    job = "update" =>
        /\ Emails(collection) = Emails(startCollection)
        /\ notFoundRecords = Cardinality(Ended("findOne", "null"))
        /\ \A p \in Ended("findOne", "null") :
              /\ At(trace[p].row, "updateOne") \cup At(trace[p].row, "insertOne") = {}
              /\ ~HasEmail(collection, trace[p].key)
        /\ \A i \in 1..totalProcessed :
              (NormalizedEmail(i) # <<>> /\ ~HasEmail(startCollection, NormalizedEmail(i))) =>
                  /\ At(i, "updateOne") \cup At(i, "insertOne") = {}
                  /\ \E p \in At(i, "findOne") : trace[p].res \in {"null", "throw"}

\* A run that counted a row as not found and updated another row's document.
C6_Witness ==
    /\ job = "update"
    /\ pc = "done"
    /\ notFoundRecords = 1
    /\ updatedRecords = 1
    /\ collection # startCollection

\* ------------------------------------------------------------------ C7
\* The step in which updateStoreInfo's updateOne returned for a row.
UpdateReturned ==
    /\ job = "update"
    /\ totalProcessed' = totalProcessed + 1
    /\ Len(trace') = Len(trace) + 2
    /\ trace'[Len(trace')].op = "updateOne"
    /\ trace'[Len(trace')].res # "throw"

\* What such a step does to the collection: the first document with the row's
\* normalized email gets the row's trimmed non-empty store id and name and a
\* timestamp; its other fields, the fields the row does not supply, and all
\* other documents are unchanged.
UpdateMerged ==
    LET i == totalProcessed + 1
        sid == csvRows[i].external_store_id
        name == csvRows[i].name
    IN  /\ Len(collection') = Len(collection)
        /\ \E k \in 1..Len(collection) :
              /\ collection[k].email = NormalizedEmail(i)
              /\ \A j \in 1..(k - 1) : collection[j].email # NormalizedEmail(i)
              /\ \A j \in 1..Len(collection) : j # k => collection'[j] = collection[j]
              /\ collection'[k].email = collection[k].email
              /\ collection'[k].data = collection[k].data
              /\ collection'[k].processedAt = collection[k].processedAt
              /\ collection'[k].store_info_updated_at # {}
              /\ collection'[k].external_store_id =
                    (IF sid # Undefined /\ Trim(sid) # <<>>
                     THEN Trim(sid) ELSE collection[k].external_store_id)
              /\ collection'[k].store_name =
                    (IF name # Undefined /\ Trim(name) # <<>>
                     THEN Trim(name) ELSE collection[k].store_name)

\* C7 as stated: when updateOne returns for a row that matches a document,
\* the document is merged as above and updated is incremented by one.
C7_MatchedRowUpdatedAndCounted ==
    [][UpdateReturned =>
          /\ UpdateMerged
          /\ updatedRecords' = updatedRecords + 1]_vars

\* C7 amended: when updateOne returns for a row that matches a document, the
\* document is merged as above; updated is incremented by one when the merge
\* changed the document (modifiedCount > 0) and is left as it was when the
\* document already held these values and this timestamp.
C7_MatchedRowMerged ==
    [][UpdateReturned =>
          /\ UpdateMerged
          /\ updatedRecords' =
                (IF collection' # collection THEN updatedRecords + 1 ELSE updatedRecords)
          /\ notFoundRecords' = notFoundRecords
          /\ errorRecords' = errorRecords]_vars

\* A row without a name has updated a document that keeps the name it had,
\* next to a second document.
C7_Witness ==
    /\ job = "update"
    /\ Len(collection) = 2
    /\ \E p \in Ended("updateOne", "modified") :
          /\ ~Truthy(OptTrim(csvRows[trace[p].row].name))
          /\ Truthy(OptTrim(csvRows[trace[p].row].external_store_id))
          /\ \E k \in 1..Len(collection) :
                /\ collection[k].email = trace[p].key
                /\ collection[k].store_name # Undefined
                /\ collection[k].external_store_id # startCollection[k].external_store_id

\* ------------------------------------------------------------------ C8
\* The collection is as a run without row errors leaves it: every document a
\* row matches holds the values the row supplies, and a timestamp.
ValuesAlreadyStored(coll) ==
    \A i \in 1..Len(csvRows) :
        \A k \in 1..Len(coll) :
            coll[k].email = NormalizedEmail(i) =>
                /\ coll[k].store_info_updated_at # {}
                /\ Truthy(OptTrim(csvRows[i].external_store_id)) =>
                      coll[k].external_store_id = OptTrim(csvRows[i].external_store_id)
                /\ Truthy(OptTrim(csvRows[i].name)) =>
                      coll[k].store_name = OptTrim(csvRows[i].name)

\* C8 as stated: an updateStoreInfo run that directly follows an
\* updateStoreInfo run on the same rows, and starts from a collection that
\* already holds every value the rows supply (with the first run's timestamp),
\* ends with updated = 0.
C8_SecondRunUpdatesNothing ==
    (job = "update" /\ prevJob = "update" /\ pc = "done"
        /\ ValuesAlreadyStored(startCollection))
    => updatedRecords = 0

\* ------------------------------------------------------------------ C9
\* C9 as stated: in processEmails, between an API call and any later lookup
\* or API call of the run there is a delay.
C9_DelayAfterEveryCall ==
    job = "enrich" =>
        \A p \in Noted("post"), q \in Noted("findOne") \cup Noted("post") :
            p < q => \E d \in Noted("delay") : p < d /\ d < q

\* ----------------------------------------------------------------- C10
\* C10 as stated: no two documents of the collection have the same
\* lowercased, trimmed email.
C10_OneRecordPerNormalizedEmail ==
    \A j \in 1..Len(collection), k \in 1..Len(collection) :
        j # k => Trim(ToLowerCase(collection[j].email)) # Trim(ToLowerCase(collection[k].email))

====
